---- MODULE Spec2Model ----
(***************************************************************************)
(* Model of services/core/jni/com_android_server_VibratorService.cpp:      *)
(* the halCall retry/reconnect helper with its function-local statics, the *)
(* seven JNI entry points built on it, and the vibrator HAL as environment.*)
(***************************************************************************)
EXTENDS Integers, Sequences, FiniteSets, TLC

VARIABLES up, ext, sInit, sHal, sAvailable, frame, calls,
          nAcq,   \* per operation, the number of reacquisitions made so far
          sSeq    \* per operation, which reacquisition sHal holds (0: none)

vars == <<up, ext, sInit, sHal, sAvailable, frame, calls, nAcq, sSeq>>

\* The numbering of the reacquisitions orders the acquisitions of threads
\* that run halCall concurrently; it is kept by the steps of SpecMT, where a
\* reacquisition and its store are separate steps.
order == <<nAcq, sSeq>>

(* ---------------- program constants ---------------- *)

NUM_TRIES == 2

\* Effect_1_1::TICK, the largest known effect id and the only one that is
\* served by the 1.1 interface (Effect: CLICK = 0, DOUBLE_CLICK = 1).
TICK == 2

(* ---------------- bounds of the model ---------------- *)

MaxEffect == 3
MaxStrength == 0
MaxDuration == 1

\* The number of JNI calls made in one behaviour.
MaxCalls == 2

Effects == -1..MaxEffect
Strengths == 0..MaxStrength
Durations == 0..MaxDuration
Timeouts == {10}
Amplitudes == {128}

(* ---------------- types ---------------- *)

\* Identifiers of caller threads; those of a behaviour are DOMAIN frame.
Threads == {1, 2}

\* One instantiation of the halCall template per member function pointer;
\* each has its own sHal and sAvailable.
Ops == {"ping", "on", "off", "supportsAmplitudeControl", "setAmplitude",
        "perform", "perform_1_1"}

\* The interface I of each instantiation.
Interface(op) == IF op = "perform_1_1" THEN "IVibrator_1_1" ELSE "IVibrator"

\* hardware::vibrator::V1_0::Status values the service answers with.
Statuses == {"OK", "UNKNOWN_ERROR", "UNSUPPORTED_OPERATION"}

\* A cached sp<I>: nullptr, a proxy of a service instance that has died, or a
\* proxy of the running instance.
Handles == {"Null", "Stale", "Live"}

\* What the service answered: the value of the Return<R> and the arguments of
\* the callback (<<>> when there is no callback).
NoReply == [val |-> "none", cb |-> <<>>]

\* An observable step of a JNI call: "getService", "tryGetService" (out: the
\* handle obtained), "attempt" (out: "nullptr" when the handle was absent and
\* nothing was called, "dead" when the call on the proxy failed at transport
\* level, "done" when it completed, with the reply), "ALOGE", "ALOGW".
Event(kind, op, args, out, reply) ==
  [kind |-> kind, op |-> op, args |-> args, out |-> out, reply |-> reply]

Ev(kind, op, args, out) == Event(kind, op, args, out, NoReply)

\* The locals of a thread in a JNI call; h is the handle it holds outside the
\* cache (the proxy it is calling, or the one it has just acquired) and hseq
\* the number of that reacquisition.
IdleFrame ==
  [pc |-> "idle", fn |-> "none", op |-> "none", args |-> <<>>, effect |-> 0,
   strength |-> 0, i |-> 0, ret |-> [ok |-> TRUE, val |-> "none"],
   status |-> <<>>, lengthMs |-> <<>>, result |-> <<>>, trace |-> <<>>,
   h |-> "Null", hseq |-> 0]

(* ---------------- the HAL service (environment) ---------------- *)

\* Whether an instance implementing interface I is registered and running.
Registered(I) == up /\ (I = "IVibrator_1_1" => ext)

\* I::getService(): nullptr when no implementation of I can be obtained.
getService(op) == IF Registered(Interface(op)) THEN "Live" ELSE "Null"

\* I::tryGetService(): the same lookup, without waiting.
tryGetService(op) == IF Registered(Interface(op)) THEN "Live" ELSE "Null"

\* The answers the running service can give to a call of op: the value of
\* the Return<R> and, for perform/perform_1_1, the (status, lengthMs) pair
\* handed to the callback.
Replies(op) ==
  CASE op = "ping" -> {[val |-> "void", cb |-> <<>>]}
    [] op \in {"on", "off", "setAmplitude"} ->
         {[val |-> s, cb |-> <<>>] : s \in Statuses}
    [] op = "supportsAmplitudeControl" ->
         {[val |-> b, cb |-> <<>>] : b \in {"true", "false"}}
    [] OTHER ->
         {[val |-> "void", cb |-> <<s, d>>] : s \in Statuses, d \in Durations}

\* The service process dies: every proxy of it becomes a dead object.
Crash ==
  /\ up
  /\ up' = FALSE
  /\ sHal' = [o \in Ops |-> IF sHal[o] = "Live" THEN "Stale" ELSE sHal[o]]
  /\ frame' = [t \in DOMAIN frame |->
                 [frame[t] EXCEPT !.h = IF @ = "Live" THEN "Stale" ELSE @]]
  /\ UNCHANGED <<ext, sInit, sAvailable, calls, order>>

\* A service instance (re)registers.
Restart ==
  /\ ~up
  /\ up' = TRUE
  /\ UNCHANGED <<ext, sInit, sHal, sAvailable, frame, calls, order>>

(* ---------------- halCall ---------------- *)

NullptrStatus_ExNone == [ok |-> TRUE, val |-> "EX_NONE"]

\* Return<R>{Status::fromExceptionCode(Status::EX_NULL_POINTER)}
NullptrStatus == [ok |-> FALSE, val |-> "EX_NULL_POINTER"]

isOk_StatusToo(ret) == ret.ok /\ ret.val # "UNKNOWN_ERROR"

\* Return<R>::isOk(): the transaction completed at transport level.
isOk(ret) == ret.ok

withDefault_Value(ret, d) == ret.val

\* Return<R>::withDefault(d)
withDefault(ret, d) == IF isOk(ret) THEN ret.val ELSE d

NotAvailable_NoHandle(op) == sHal[op] = "Null"

NotAvailable_Never(op) == FALSE

\* The early-return test of halCall.
NotAvailable(op) == ~sAvailable[op]

LoopCond_OffByOne(i) == i <= NUM_TRIES

\* The loop condition of halCall.
LoopCond(i) == i < NUM_TRIES

\* Entering halCall<op>(args) from JNI function fn.
Enter(t, fn, op, args, effect, strength) ==
  /\ frame[t].pc = "idle"
  /\ calls < MaxCalls
  /\ calls' = calls + 1
  /\ frame' = [frame EXCEPT ![t] =
       [IdleFrame EXCEPT !.pc = "L59", !.fn = fn, !.op = op, !.args = args,
                         !.effect = effect, !.strength = strength]]
  /\ UNCHANGED <<up, ext, sInit, sHal, sAvailable, order>>

NeedsInit_EveryCall(op) == TRUE

\* The guard of the function-local statics: they are initialised by the first
\* thread that passes their declaration, while the others wait.
NeedsInit(op) == ~sInit[op]

\* Lines 59-60: the function-local statics are initialised on the first
\* pass only.
StaticInit(t) ==
  LET f == frame[t] IN
  /\ f.pc = "L59"
  /\ IF ~NeedsInit(f.op)
       THEN /\ UNCHANGED <<sInit, sHal, sAvailable>>
            /\ frame' = [frame EXCEPT ![t].pc = "L62"]
       ELSE LET h == getService(f.op) IN
            /\ sInit' = [sInit EXCEPT ![f.op] = TRUE]
            /\ sHal' = [sHal EXCEPT ![f.op] = h]
            /\ sAvailable' = [sAvailable EXCEPT ![f.op] = (h # "Null")]
            /\ frame' = [frame EXCEPT ![t].pc = "L62",
                 ![t].trace = Append(@, Ev("getService", f.op, <<>>, h))]
  /\ UNCHANGED <<up, ext, calls, order>>

\* Lines 62-69.
CheckAvailable(t) ==
  LET f == frame[t] IN
  /\ f.pc = "L62"
  /\ IF NotAvailable(f.op)
       THEN frame' = [frame EXCEPT ![t].pc = "L84", ![t].ret = NullptrStatus]
       ELSE frame' = [frame EXCEPT ![t].pc = "L72", ![t].i = 0,
                                   ![t].ret = [ok |-> TRUE, val |-> "EX_NONE"]]
  /\ UNCHANGED <<up, ext, sInit, sHal, sAvailable, calls, order>>

BreakOrRetry_NoFinalReconnect(r, i) ==
  IF isOk(r) \/ i + 1 >= NUM_TRIES THEN "L84" ELSE "L80"

BreakOrRetry_AlwaysReconnect(r, i) == "L80"

\* Lines 76-80: break out of the loop when the attempt is ok, otherwise go on
\* to the log and the reconnection (in every iteration i).
BreakOrRetry(r, i) == IF isOk(r) THEN "L84" ELSE "L80"

AfterAttempt_KeepFirst(f, out, r, reply) ==
  [f EXCEPT !.ret = IF f.i = 0 THEN r ELSE @,
            !.status = IF reply.cb = <<>> THEN @ ELSE <<reply.cb[1]>>,
            !.lengthMs = IF reply.cb = <<>> THEN @ ELSE <<reply.cb[2]>>,
            !.trace = Append(@, Event("attempt", f.op, f.args, out, reply)),
            !.pc = BreakOrRetry(r, f.i)]

\* The frame after one evaluation of lines 73-78 that produced ret r; the
\* callback ran with reply.cb unless that is <<>>.
AfterAttempt(f, out, r, reply) ==
  [f EXCEPT !.ret = r,
            !.status = IF reply.cb = <<>> THEN @ ELSE <<reply.cb[1]>>,
            !.lengthMs = IF reply.cb = <<>> THEN @ ELSE <<reply.cb[2]>>,
            !.trace = Append(@, Event("attempt", f.op, f.args, out, reply)),
            !.pc = BreakOrRetry(r, f.i)]

\* Lines 72-78: the loop test, one attempt and the break.
Attempt(t) ==
  LET f == frame[t] IN
  /\ f.pc = "L72"
  /\ \/ /\ ~LoopCond(f.i)
        /\ frame' = [frame EXCEPT ![t].pc = "L84"]
     \/ /\ LoopCond(f.i)
        /\ sHal[f.op] = "Null"
        /\ frame' = [frame EXCEPT ![t] = AfterAttempt(f, "nullptr", NullptrStatus, NoReply)]
     \/ /\ LoopCond(f.i)
        /\ sHal[f.op] = "Stale"
        /\ frame' = [frame EXCEPT ![t] =
             AfterAttempt(f, "dead", [ok |-> FALSE, val |-> "DEAD_OBJECT"], NoReply)]
     \/ /\ LoopCond(f.i)
        /\ sHal[f.op] = "Live"
        /\ \E reply \in Replies(f.op) :
             frame' = [frame EXCEPT ![t] =
               AfterAttempt(f, "done", [ok |-> TRUE, val |-> reply.val], reply)]
  /\ UNCHANGED <<up, ext, sInit, sHal, sAvailable, calls, order>>

StoreHal_Shared(op, h) == [o \in Ops |-> IF sInit[o] THEN h ELSE sHal[o]]

\* Line 82: the assignment to the sHal of the instantiation for op.
StoreHal(op, h) == [sHal EXCEPT ![op] = h]

\* Lines 80-83: the error log, the reconnection and ++i.
Reconnect(t) ==
  LET f == frame[t]
      h == tryGetService(f.op) IN
  /\ f.pc = "L80"
  /\ sHal' = StoreHal(f.op, h)
  /\ frame' = [frame EXCEPT ![t].pc = "L72", ![t].i = f.i + 1,
       ![t].trace = @ \o <<Ev("ALOGE", f.op, <<>>, "halCall"),
                          Ev("tryGetService", f.op, <<>>, h)>>]
  /\ UNCHANGED <<up, ext, sInit, sAvailable, calls, order>>

(* ---------------- the JNI functions ---------------- *)

\* The function returns v (<<>> for a void function), after logging evs.
Finish(t, evs, v) ==
  frame' = [frame EXCEPT ![t].pc = "done", ![t].result = v, ![t].trace = @ \o evs]

AtRet(t, fn) == frame[t].pc = "L84" /\ frame[t].fn = fn

vibratorInit(t) == Enter(t, "vibratorInit", "ping", <<>>, 0, 0)

vibratorInitRet(t) ==
  /\ AtRet(t, "vibratorInit")
  /\ Finish(t, <<>>, <<>>)
  /\ UNCHANGED <<up, ext, sInit, sHal, sAvailable, calls, order>>

vibratorExists(t) == Enter(t, "vibratorExists", "ping", <<>>, 0, 0)

ExistsResult_AlwaysTrue(ret) == 1

\* Line 94: JNI_TRUE or JNI_FALSE.
ExistsResult(ret) == IF isOk(ret) THEN 1 ELSE 0

vibratorExistsRet(t) ==
  /\ AtRet(t, "vibratorExists")
  /\ Finish(t, <<>>, <<ExistsResult(frame[t].ret)>>)
  /\ UNCHANGED <<up, ext, sInit, sHal, sAvailable, calls, order>>

\* The tail shared by vibratorOn, vibratorOff and vibratorSetAmplitude.
StatusRet(t, fn) ==
  LET retStatus == withDefault(frame[t].ret, "UNKNOWN_ERROR") IN
  /\ AtRet(t, fn)
  /\ Finish(t, IF retStatus # "OK" THEN <<Ev("ALOGE", fn, <<>>, retStatus)>> ELSE <<>>, <<>>)
  /\ UNCHANGED <<up, ext, sInit, sHal, sAvailable, calls, order>>

vibratorOn(t) == \E timeout_ms \in Timeouts :
  Enter(t, "vibratorOn", "on", <<timeout_ms>>, 0, 0)

vibratorOnRet(t) == StatusRet(t, "vibratorOn")

vibratorOff(t) == Enter(t, "vibratorOff", "off", <<>>, 0, 0)

vibratorOffRet(t) == StatusRet(t, "vibratorOff")

vibratorSupportsAmplitudeControl(t) ==
  Enter(t, "vibratorSupportsAmplitudeControl", "supportsAmplitudeControl", <<>>, 0, 0)

vibratorSupportsAmplitudeControlRet(t) ==
  /\ AtRet(t, "vibratorSupportsAmplitudeControl")
  /\ Finish(t, <<>>, <<IF withDefault(frame[t].ret, "false") = "true" THEN 1 ELSE 0>>)
  /\ UNCHANGED <<up, ext, sInit, sHal, sAvailable, calls, order>>

vibratorSetAmplitude(t) == \E amplitude \in Amplitudes :
  Enter(t, "vibratorSetAmplitude", "setAmplitude", <<amplitude>>, 0, 0)

vibratorSetAmplitudeRet(t) == StatusRet(t, "vibratorSetAmplitude")

InvalidEffect_NoUpperBound(effect) == effect < 0

\* Line 135: the identifier is rejected.
InvalidEffect(effect) == effect < 0 \/ effect > TICK

EffectOp_AlwaysBase(effect) == "perform"

\* Lines 138-147: the member function the effect is dispatched to.
EffectOp(effect) == IF effect = TICK THEN "perform_1_1" ELSE "perform"

\* Lines 139, 146: the arguments handed to the HAL.
EffectArgs(effect, strength) == <<effect, strength>>

\* Lines 126-151, up to the halCall.
vibratorPerformEffect(t) == \E effect \in Effects, strength \in Strengths :
  IF InvalidEffect(effect)
    THEN /\ frame[t].pc = "idle"
         /\ calls < MaxCalls
         /\ calls' = calls + 1
         /\ frame' = [frame EXCEPT ![t] =
              [IdleFrame EXCEPT !.pc = "L153", !.fn = "vibratorPerformEffect",
                 !.effect = effect, !.strength = strength,
                 !.trace = <<Ev("ALOGW", "vibratorPerformEffect", <<>>, "invalid effect ID")>>]]
         /\ UNCHANGED <<up, ext, sInit, sHal, sAvailable, order>>
    ELSE Enter(t, "vibratorPerformEffect", EffectOp(effect),
               EffectArgs(effect, strength), effect, strength)

\* Lines 141-150: the warning after a halCall that is not ok.
vibratorPerformEffectRet(t) ==
  LET f == frame[t] IN
  /\ AtRet(t, "vibratorPerformEffect")
  /\ frame' = [frame EXCEPT ![t].pc = "L153",
       ![t].trace = IF isOk(f.ret) THEN @
                    ELSE Append(@, Ev("ALOGW", "vibratorPerformEffect", <<>>, "Failed to perform effect"))]
  /\ UNCHANGED <<up, ext, sInit, sHal, sAvailable, calls, order>>

\* The values a read of the local `status` can yield: the value the callback
\* stored, or any value when the callback never ran (the local is not
\* initialised).
ReadStatus(f) == IF f.status = <<>> THEN Statuses ELSE {f.status[1]}

\* The same for the local `lengthMs`.
ReadLengthMs(f) == IF f.lengthMs = <<>> THEN Durations ELSE {f.lengthMs[1]}

EffectResult_ZeroIsFailure(status, lengthMs) ==
  IF status = "OK" /\ lengthMs > 0 THEN lengthMs ELSE -1

\* Lines 153-163: the value returned for the status and length read.
EffectResult(status, lengthMs) == IF status = "OK" THEN lengthMs ELSE -1

EffectLogsError_AnyFailure(status) == status # "OK"

\* Lines 155-162: whether the error is logged.
EffectLogsError(status) == status # "OK" /\ status # "UNSUPPORTED_OPERATION"

\* Lines 153-163.
vibratorPerformEffectTail(t) ==
  LET f == frame[t] IN
  /\ f.pc = "L153"
  /\ \E status \in ReadStatus(f), lengthMs \in ReadLengthMs(f) :
       Finish(t, IF EffectLogsError(status)
                   THEN <<Ev("ALOGE", "vibratorPerformEffect", <<>>, status)>>
                   ELSE <<>>,
              <<EffectResult(status, lengthMs)>>)
  /\ UNCHANGED <<up, ext, sInit, sHal, sAvailable, calls, order>>

\* The JNI function has returned to its caller; the thread can call again.
Return(t) ==
  /\ frame[t].pc = "done"
  /\ frame' = [frame EXCEPT ![t] = IdleFrame]
  /\ UNCHANGED <<up, ext, sInit, sHal, sAvailable, calls, order>>

(* ---------------- specification ---------------- *)

Init ==
  /\ up \in BOOLEAN
  /\ ext \in BOOLEAN
  /\ sInit = [o \in Ops |-> FALSE]
  /\ sHal = [o \in Ops |-> "Null"]
  /\ sAvailable = [o \in Ops |-> FALSE]
  /\ frame = [t \in {1} |-> IdleFrame]
  /\ calls = 0
  /\ nAcq = [o \in Ops |-> 0]
  /\ sSeq = [o \in Ops |-> 0]

Next ==
  \/ \E t \in DOMAIN frame : vibratorInit(t)
  \/ \E t \in DOMAIN frame : vibratorInitRet(t)
  \/ \E t \in DOMAIN frame : vibratorExists(t)
  \/ \E t \in DOMAIN frame : vibratorExistsRet(t)
  \/ \E t \in DOMAIN frame : vibratorOn(t)
  \/ \E t \in DOMAIN frame : vibratorOnRet(t)
  \/ \E t \in DOMAIN frame : vibratorOff(t)
  \/ \E t \in DOMAIN frame : vibratorOffRet(t)
  \/ \E t \in DOMAIN frame : vibratorSupportsAmplitudeControl(t)
  \/ \E t \in DOMAIN frame : vibratorSupportsAmplitudeControlRet(t)
  \/ \E t \in DOMAIN frame : vibratorSetAmplitude(t)
  \/ \E t \in DOMAIN frame : vibratorSetAmplitudeRet(t)
  \/ \E t \in DOMAIN frame : vibratorPerformEffect(t)
  \/ \E t \in DOMAIN frame : vibratorPerformEffectRet(t)
  \/ \E t \in DOMAIN frame : vibratorPerformEffectTail(t)
  \/ \E t \in DOMAIN frame : StaticInit(t)
  \/ \E t \in DOMAIN frame : CheckAvailable(t)
  \/ \E t \in DOMAIN frame : Attempt(t)
  \/ \E t \in DOMAIN frame : Reconnect(t)
  \/ \E t \in DOMAIN frame : Return(t)
  \/ Crash
  \/ Restart

Spec == Init /\ [][Next]_vars

\* A thread inside halCall keeps running: every call on the service returns.
HalCallStep(t) == StaticInit(t) \/ CheckAvailable(t) \/ Attempt(t) \/ Reconnect(t)

FairSpec == Spec /\ \A t \in Threads : WF_vars(t \in DOMAIN frame /\ HalCallStep(t))

(* ---------------- halCall run by concurrent threads ---------------- *)

\* Lines 72-74, up to the call: the loop test and the read of sHal.  With an
\* absent handle the attempt is over at once; otherwise the thread is now
\* inside the call on the proxy it has read.
AttemptBegin(t) ==
  LET f == frame[t] IN
  /\ f.pc = "L72"
  /\ \/ /\ ~LoopCond(f.i)
        /\ frame' = [frame EXCEPT ![t].pc = "L84"]
     \/ /\ LoopCond(f.i)
        /\ sHal[f.op] = "Null"
        /\ frame' = [frame EXCEPT ![t] = AfterAttempt(f, "nullptr", NullptrStatus, NoReply)]
     \/ /\ LoopCond(f.i)
        /\ sHal[f.op] # "Null"
        /\ frame' = [frame EXCEPT ![t].pc = "L74", ![t].h = sHal[f.op]]
  /\ UNCHANGED <<up, ext, sInit, sHal, sAvailable, calls, order>>

\* Lines 74-78: the call on the proxy returns.
AttemptEnd(t) ==
  LET f == frame[t]
      g == [f EXCEPT !.h = "Null"] IN
  /\ f.pc = "L74"
  /\ \/ /\ f.h = "Stale"
        /\ frame' = [frame EXCEPT ![t] =
             AfterAttempt(g, "dead", [ok |-> FALSE, val |-> "DEAD_OBJECT"], NoReply)]
     \/ /\ f.h = "Live"
        /\ \E reply \in Replies(f.op) :
             frame' = [frame EXCEPT ![t] =
               AfterAttempt(g, "done", [ok |-> TRUE, val |-> reply.val], reply)]
  /\ UNCHANGED <<up, ext, sInit, sHal, sAvailable, calls, order>>

\* Lines 80-82, up to the assignment: the error log and I::tryGetService().
ReconnectAcquire(t) ==
  LET f == frame[t]
      h == tryGetService(f.op) IN
  /\ f.pc = "L80"
  /\ nAcq' = [nAcq EXCEPT ![f.op] = @ + 1]
  /\ frame' = [frame EXCEPT ![t].pc = "L82", ![t].h = h, ![t].hseq = nAcq[f.op] + 1,
       ![t].trace = @ \o <<Ev("ALOGE", f.op, <<>>, "halCall"),
                          Ev("tryGetService", f.op, <<>>, h)>>]
  /\ UNCHANGED <<up, ext, sInit, sHal, sAvailable, calls, sSeq>>

\* Line 82: the assignment to sHal starts.  sp<I>::operator= is not atomic
\* and sHal is not guarded by a lock.
StoreBegin(t) ==
  /\ frame[t].pc = "L82"
  /\ frame' = [frame EXCEPT ![t].pc = "L82w"]
  /\ UNCHANGED <<up, ext, sInit, sHal, sAvailable, calls, order>>

\* Lines 82-83: the assignment to sHal is complete, and ++i.
StoreEnd(t) ==
  LET f == frame[t] IN
  /\ f.pc = "L82w"
  /\ sHal' = StoreHal(f.op, f.h)
  /\ sSeq' = [sSeq EXCEPT ![f.op] = f.hseq]
  /\ frame' = [frame EXCEPT ![t].pc = "L72", ![t].i = f.i + 1,
                            ![t].h = "Null", ![t].hseq = 0]
  /\ UNCHANGED <<up, ext, sInit, sAvailable, calls, nAcq>>

\* Two threads make one call each, of vibratorInit or vibratorExists, which
\* share the ping instantiation of halCall, or of vibratorOn, which has its
\* own.
InitMT ==
  /\ up \in BOOLEAN
  /\ ext \in BOOLEAN
  /\ sInit = [o \in Ops |-> FALSE]
  /\ sHal = [o \in Ops |-> "Null"]
  /\ sAvailable = [o \in Ops |-> FALSE]
  /\ frame = [t \in Threads |-> IdleFrame]
  /\ calls = 0
  /\ nAcq = [o \in Ops |-> 0]
  /\ sSeq = [o \in Ops |-> 0]

NextMT ==
  \/ \E t \in DOMAIN frame : vibratorInit(t)
  \/ \E t \in DOMAIN frame : vibratorInitRet(t)
  \/ \E t \in DOMAIN frame : vibratorExists(t)
  \/ \E t \in DOMAIN frame : vibratorExistsRet(t)
  \/ \E t \in DOMAIN frame : vibratorOn(t)
  \/ \E t \in DOMAIN frame : vibratorOnRet(t)
  \/ \E t \in DOMAIN frame : StaticInit(t)
  \/ \E t \in DOMAIN frame : CheckAvailable(t)
  \/ \E t \in DOMAIN frame : AttemptBegin(t)
  \/ \E t \in DOMAIN frame : AttemptEnd(t)
  \/ \E t \in DOMAIN frame : ReconnectAcquire(t)
  \/ \E t \in DOMAIN frame : StoreBegin(t)
  \/ \E t \in DOMAIN frame : StoreEnd(t)
  \/ Crash
  \/ Restart

SpecMT == InitMT /\ [][NextMT]_vars

(* ---------------- properties ---------------- *)

Callers == DOMAIN frame

\* The positions in trace tr of the events of kind k.
Pos(tr, k) == {j \in 1..Len(tr) : tr[j].kind = k}

\* The events through which a call touches the service or the cache.
ServiceKinds == {"getService", "attempt", "tryGetService"}

\* MAX_KNOWN_EFFECT of the specification.
MAX_KNOWN_EFFECT == TICK

OutOfRange(effect) == effect < 0 \/ effect > MAX_KNOWN_EFFECT

\* Thread t has finished a vibratorPerformEffect call.
EffectDone(t) == frame[t].pc = "done" /\ frame[t].fn = "vibratorPerformEffect"

\* The last attempt of trace tr (tr has one).
LastAttempt(tr) == tr[CHOOSE j \in Pos(tr, "attempt") : \A k \in Pos(tr, "attempt") : k <= j]

\* The underlying call of the performEffect call in trace tr reported
\* (status, d): its last attempt completed and ran the callback with them.
Reported(tr, status, d) ==
  /\ Pos(tr, "attempt") # {}
  /\ LastAttempt(tr).out = "done"
  /\ LastAttempt(tr).reply.cb = <<status, d>>

\* C1: performEffect returns -1 for every effect identifier below 0 or above
\* MAX_KNOWN_EFFECT, for every strength and every state of the cached handles.
C1_OutOfRangeReturnsMinusOne ==
  \A t \in Callers :
    (EffectDone(t) /\ OutOfRange(frame[t].effect)) => frame[t].result = <<-1>>

\* C2: a performEffect call with an out-of-range identifier never reaches the
\* service: no step of it acquires, calls or reconnects, and none changes a
\* cached handle or an availability flag.
C2_OutOfRangeStep ==
  \A t \in Callers :
    (/\ frame'[t] # frame[t]
     /\ frame'[t].fn = "vibratorPerformEffect"
     /\ OutOfRange(frame'[t].effect))
    => /\ UNCHANGED <<sInit, sHal, sAvailable>>
       /\ frame'[t].op = "none"
       /\ \A j \in 1..Len(frame'[t].trace) : frame'[t].trace[j].kind \notin ServiceKinds

C2_OutOfRangeNeverReachesService == [][C2_OutOfRangeStep]_vars

\* An out-of-range call has returned although a handle of the Base entry
\* point is cached.
C2_Witness ==
  \E t \in Callers :
    /\ EffectDone(t) /\ frame[t].effect > MAX_KNOWN_EFFECT
    /\ frame[t].result = <<-1>>
    /\ sInit["perform"] /\ sHal["perform"] = "Live"

\* The entry point the specification routes an in-range identifier to.
RoutedTo(effect) == IF effect = TICK THEN "perform_1_1" ELSE "perform"

\* C3: a performEffect call with an in-range identifier addresses one entry
\* point in all its attempts, acquisitions and reconnections: perform_1_1 for
\* TICK, perform for any other identifier, with the effect/strength pair of
\* the call as arguments.
C3_RoutedToOneEntryPoint ==
  \A t \in Callers :
    (frame[t].fn = "vibratorPerformEffect" /\ ~OutOfRange(frame[t].effect))
    => /\ frame[t].op = RoutedTo(frame[t].effect)
       /\ \A j \in 1..Len(frame[t].trace) :
            frame[t].trace[j].kind \in ServiceKinds
            => /\ frame[t].trace[j].op = RoutedTo(frame[t].effect)
               /\ frame[t].trace[j].kind = "attempt"
                  => frame[t].trace[j].args = <<frame[t].effect, frame[t].strength>>

\* A TICK call has made both its attempts, the second one completing.
C3_Witness ==
  \E t \in Callers :
    /\ EffectDone(t) /\ frame[t].effect = TICK
    /\ Cardinality(Pos(frame[t].trace, "attempt")) = 2
    /\ LastAttempt(frame[t].trace).out = "done"
    /\ LastAttempt(frame[t].trace).op = "perform_1_1"

\* C4: when the underlying call reports OK with duration d, on the first
\* attempt or on the retry, performEffect returns d.
C4_OkReturnsDuration ==
  \A t \in Callers : \A d \in Durations :
    (EffectDone(t) /\ Reported(frame[t].trace, "OK", d)) => frame[t].result = <<d>>

\* OK with a positive duration arrived on the retry and was returned.
C4_Witness ==
  \E t \in Callers :
    /\ EffectDone(t) /\ Reported(frame[t].trace, "OK", MaxDuration)
    /\ Cardinality(Pos(frame[t].trace, "attempt")) = 2
    /\ frame[t].result = <<MaxDuration>>

\* The attempts of trace tr that failed at transport level.
FailedAttempts(tr) == {j \in Pos(tr, "attempt") : tr[j].out # "done"}

\* C5 as stated: when the underlying call reports UNSUPPORTED_OPERATION,
\* performEffect returns -1 and the whole call, dispatcher included, emits no
\* error-level diagnostic.
C5_UnsupportedSilent ==
  \A t \in Callers : \A d \in Durations :
    (EffectDone(t) /\ Reported(frame[t].trace, "UNSUPPORTED_OPERATION", d))
    => /\ frame[t].result = <<-1>>
       /\ Pos(frame[t].trace, "ALOGE") = {}

\* C5 amended: when the underlying call reports UNSUPPORTED_OPERATION,
\* performEffect returns -1 and emits no error-level diagnostic of its own;
\* the only error-level diagnostic of the call is the dispatcher's, emitted
\* once for the failed first attempt when the status arrives on the second.
C5_UnsupportedNotReportedByEffect ==
  \A t \in Callers : \A d \in Durations :
    (EffectDone(t) /\ Reported(frame[t].trace, "UNSUPPORTED_OPERATION", d))
    => LET tr == frame[t].trace IN
       /\ frame[t].result = <<-1>>
       /\ \A j \in Pos(tr, "ALOGE") : tr[j].out = "halCall" /\ j - 1 \in FailedAttempts(tr)
       /\ Cardinality(Pos(tr, "ALOGE")) = Cardinality(Pos(tr, "attempt")) - 1

\* UNSUPPORTED_OPERATION arrived on the second attempt.
C5_Witness ==
  \E t \in Callers : \E d \in Durations :
    /\ EffectDone(t) /\ Reported(frame[t].trace, "UNSUPPORTED_OPERATION", d)
    /\ Cardinality(Pos(frame[t].trace, "attempt")) = 2
    /\ Cardinality(Pos(frame[t].trace, "ALOGE")) = 1
    /\ frame[t].result = <<-1>>

\* C6: performEffect with a valid identifier returns -1 when no attempt on its
\* entry point completed at transport level (handle absent at first use, or
\* every attempt failed).
C6_UnreachableReturnsMinusOne ==
  \A t \in Callers :
    (/\ EffectDone(t) /\ ~OutOfRange(frame[t].effect)
     /\ Pos(frame[t].trace, "attempt") = FailedAttempts(frame[t].trace))
    => frame[t].result = <<-1>>

\* The attempts and reconnections of every invocation stay within NUM_TRIES.
C7_Bounded ==
  \A t \in Callers :
    /\ frame[t].i <= NUM_TRIES
    /\ Cardinality(Pos(frame[t].trace, "attempt")) <= NUM_TRIES
    /\ Cardinality(Pos(frame[t].trace, "tryGetService")) <= NUM_TRIES

\* C7: every dispatcher invocation makes at most 2 attempts on the service and
\* then returns, whatever the service and the acquisitions answer.
C7_TerminatesWithinTwoAttempts ==
  /\ []C7_Bounded
  /\ \A t \in Threads :
       (t \in DOMAIN frame /\ frame[t].pc = "L59")
         ~> (t \in DOMAIN frame /\ frame[t].pc = "L84")

\* An invocation has returned after two failed attempts.
C7_Witness ==
  \E t \in Callers :
    /\ frame[t].pc = "L84"
    /\ Cardinality(FailedAttempts(frame[t].trace)) = NUM_TRIES

\* The first and the second attempt of trace tr.
FirstAttempt(tr) == CHOOSE j \in Pos(tr, "attempt") : \A k \in Pos(tr, "attempt") : j <= k

ReconnectsBetweenAttempts(tr) ==
  {r \in Pos(tr, "tryGetService") :
     /\ FirstAttempt(tr) < r
     /\ \E a \in Pos(tr, "attempt") : r < a}

\* C8 as stated: an invocation with an attempt that failed at transport level
\* triggers exactly one reconnection, between its first and second attempt.
C8_ExactlyOneReconnect ==
  \A t \in Callers :
    (frame[t].pc = "L84" /\ FailedAttempts(frame[t].trace) # {})
    => /\ Cardinality(Pos(frame[t].trace, "tryGetService")) = 1
       /\ Cardinality(ReconnectsBetweenAttempts(frame[t].trace)) = 1

\* C8 amended: the dispatcher triggers one reconnection right after each
\* failed attempt: exactly one lies between the first and the second attempt,
\* and when the second attempt fails too a second one follows it before the
\* dispatcher returns.
C8_ReconnectAfterEachFailure ==
  \A t \in Callers :
    frame[t].pc = "L84"
    => LET tr == frame[t].trace IN
       /\ \A r \in Pos(tr, "tryGetService") : r - 2 \in FailedAttempts(tr)
       /\ \A a \in FailedAttempts(tr) : a + 2 \in Pos(tr, "tryGetService")
       /\ FailedAttempts(tr) # {}
          => /\ Cardinality(Pos(tr, "attempt")) = 2
             /\ Cardinality(ReconnectsBetweenAttempts(tr)) = 1

\* Both attempts failed and each was followed by a reconnection.
C8_Witness ==
  \E t \in Callers :
    /\ frame[t].pc = "L84"
    /\ Cardinality(FailedAttempts(frame[t].trace)) = 2
    /\ Cardinality(Pos(frame[t].trace, "tryGetService")) = 2

\* C9: once an attempt has completed at transport level, with any status, the
\* invocation makes no further attempt and no reconnection.
C9_LogicalErrorNotRetried ==
  \A t \in Callers :
    LET tr == frame[t].trace IN
    \A j \in Pos(tr, "attempt") :
      tr[j].out = "done"
      => \A k \in 1..Len(tr) : k > j => tr[k].kind \notin {"attempt", "tryGetService"}

\* vibratorOn got UNKNOWN_ERROR on its only attempt and reported it.
C9_Witness ==
  \E t \in Callers :
    /\ frame[t].pc = "done" /\ frame[t].fn = "vibratorOn"
    /\ Cardinality(Pos(frame[t].trace, "attempt")) = 1
    /\ LastAttempt(frame[t].trace).reply.val = "UNKNOWN_ERROR"
    /\ frame[t].trace[Len(frame[t].trace)].kind = "ALOGE"

\* The initial acquisition of op has been made and yielded no handle.
InitiallyAbsent(op) == sInit[op] /\ ~sAvailable[op]

\* The step of C10 as stated.
C10_LaterStep ==
  \A t \in Callers :
    (/\ frame[t].pc = "L62"
     /\ frame'[t] # frame[t]
     /\ Pos(frame[t].trace, "getService") = {}
     /\ InitiallyAbsent(frame[t].op)
     /\ Registered(Interface(frame[t].op)))
    => frame'[t].pc # "L84"

\* C10 as stated: after an initial acquisition that yielded no handle, the
\* cache still allows reconnection: a later invocation that finds the handle
\* absent while the service is registered does not return at once but goes on
\* to its attempts, whose failure triggers the reconnection.
C10_LaterInvocationReconnects == [][C10_LaterStep]_vars

\* The step part of the amended C10.
C10_AbsentStep ==
  \A op \in Ops :
    InitiallyAbsent(op)
    => /\ sInit'[op] /\ ~sAvailable'[op] /\ sHal'[op] = "Null"
       /\ \A t \in Callers :
            frame'[t].op = op
            => /\ Pos(frame'[t].trace, "attempt") = {}
               /\ Pos(frame'[t].trace, "tryGetService") = {}
               /\ frame'[t].pc \in {"L84", "done"} => frame'[t].ret = NullptrStatus

\* C10 amended: if the initial acquisition yields no handle, the operation
\* stays unavailable for the rest of the process: no later invocation
\* reconnects, attempts or contacts the service, and each returns the
\* null-pointer outcome, also once the service has become available.
C10_AbsentForEver == [][C10_AbsentStep]_vars

\* A later invocation returned the null-pointer outcome while the service was
\* registered.
C10_Witness ==
  \E t \in Callers :
    /\ frame[t].pc = "done"
    /\ frame[t].op \in Ops
    /\ Pos(frame[t].trace, "getService") = {}
    /\ InitiallyAbsent(frame[t].op)
    /\ Registered(Interface(frame[t].op))
    /\ frame[t].ret = NullptrStatus

\* The events thread t appends to its trace in a step.
NewEvents(t) ==
  SubSeq(frame'[t].trace, Len(frame[t].trace) + 1, Len(frame'[t].trace))

\* Thread t acquires a handle in a step.
Acquires(t) ==
  \E j \in 1..Len(NewEvents(t)) :
    NewEvents(t)[j].kind \in {"getService", "tryGetService"}

\* The last event of a non-empty trace tr is an attempt that failed.
EndsWithFailedAttempt(tr) ==
  /\ tr # <<>>
  /\ tr[Len(tr)].kind = "attempt"
  /\ tr[Len(tr)].out # "done"

\* The step part of C13.  A Crash leaves each cached proxy in place (it only
\* turns it into a dead object), so the steps that replace a handle are steps
\* of threads.
C13_Step ==
  \A t \in Callers :
    frame'[t] # frame[t]
    => /\ (sHal' # sHal \/ Acquires(t))
          => /\ frame[t].op \in Ops
             /\ \A o \in Ops \ {frame[t].op} : sHal'[o] = sHal[o]
             /\ \/ /\ ~sInit[frame[t].op] /\ sInit'[frame[t].op]
                   /\ NewEvents(t) = <<Ev("getService", frame[t].op, <<>>, sHal'[frame[t].op])>>
                \/ /\ sInit[frame[t].op]
                   /\ EndsWithFailedAttempt(frame[t].trace)
                   /\ Len(NewEvents(t)) = 2
                   /\ NewEvents(t)[2] = Ev("tryGetService", frame[t].op, <<>>, sHal'[frame[t].op])
       /\ (\E j \in Pos(frame[t].trace, "attempt") : frame[t].trace[j].out = "done")
          => sHal' = sHal /\ ~Acquires(t)

\* C13: once a handle is acquired it is reused: after an attempt that
\* completed at transport level the invocation leaves the cached handle as it
\* is, and a handle is acquired and stored only at the first use of the
\* operation or directly after an attempt that failed at transport level.
C13_HandleReused == [][C13_Step]_vars

\* A later invocation completed on its first attempt through the handle an
\* earlier invocation had acquired.
C13_Witness ==
  \E t \in Callers :
    /\ frame[t].pc = "L84"
    /\ Pos(frame[t].trace, "getService") = {}
    /\ Pos(frame[t].trace, "tryGetService") = {}
    /\ Cardinality(Pos(frame[t].trace, "attempt")) = 1
    /\ LastAttempt(frame[t].trace).out = "done"
    /\ sHal[frame[t].op] = "Live"

\* The step part of C14.
C14_Step ==
  \A t \in Callers :
    (/\ frame'[t] # frame[t]
     /\ frame[t].pc \in {"L62", "L72"}
     /\ sHal[frame[t].op] = "Null")
    => /\ \A j \in 1..Len(NewEvents(t)) :
            NewEvents(t)[j].kind = "attempt"
            => /\ NewEvents(t)[j].out = "nullptr"
               /\ NewEvents(t)[j].reply = NoReply
               /\ ~frame'[t].ret.ok
               /\ frame'[t].pc = "L80"
       /\ (frame[t].pc = "L62" /\ frame'[t].pc = "L84") => ~frame'[t].ret.ok

\* C14: the service is never called through an absent handle: an attempt made
\* while the cached handle is absent calls nothing and yields a
\* transport-failure outcome, and so does an invocation that finds the
\* operation unavailable.
C14_NoCallThroughAbsentHandle == [][C14_Step]_vars

\* An attempt found the handle absent after a reconnection that had yielded
\* none.
C14_Witness ==
  \E t \in Callers :
    LET tr == frame[t].trace IN
    /\ frame[t].pc = "L84"
    /\ \E j \in Pos(tr, "attempt") :
         /\ tr[j].out = "nullptr"
         /\ j > 1
         /\ tr[j - 1].kind = "tryGetService" /\ tr[j - 1].out = "Null"

\* C15: vibratorExists returns true exactly when the ping completed at
\* transport level on the last attempt made, and false when the handle was
\* absent at first use or every attempt failed; vibratorInit makes the same
\* probe on the same cached handle (the ping instantiation) and returns
\* nothing.
C15_ExistsIsLastProbe ==
  \A t \in Callers :
    LET f == frame[t] IN
    /\ f.fn \in {"vibratorInit", "vibratorExists"}
       => /\ f.op = "ping" /\ f.args = <<>>
          /\ \A j \in 1..Len(f.trace) : f.trace[j].op = "ping"
          /\ f.pc = "L84" => (f.ret.ok <=> (Pos(f.trace, "attempt") # {}
                                           /\ LastAttempt(f.trace).out = "done"))
    /\ (f.pc = "done" /\ f.fn = "vibratorExists")
       => f.result = <<IF Pos(f.trace, "attempt") # {} /\ LastAttempt(f.trace).out = "done"
                         THEN 1 ELSE 0>>
    /\ (f.pc = "done" /\ f.fn = "vibratorInit") => f.result = <<>>

\* vibratorExists returned false after two failed attempts.
C15_Witness ==
  \E t \in Callers :
    /\ frame[t].pc = "done" /\ frame[t].fn = "vibratorExists"
    /\ Cardinality(FailedAttempts(frame[t].trace)) = 2
    /\ frame[t].result = <<0>>

\* The diagnostics of trace tr.
Diagnostics(tr) == Pos(tr, "ALOGE") \cup Pos(tr, "ALOGW")

\* Thread t has finished a vibratorSetAmplitude call in which both attempts
\* failed at transport level.
SetAmplitudeUnreachable(t) ==
  /\ frame[t].pc = "done" /\ frame[t].fn = "vibratorSetAmplitude"
  /\ Cardinality(FailedAttempts(frame[t].trace)) = 2

\* C16 as stated: setAmplitude with the service unreachable on both attempts
\* completes without raising and logs exactly one diagnostic.
C16_OneDiagnostic ==
  \A t \in Callers :
    SetAmplitudeUnreachable(t)
    => /\ frame[t].result = <<>>
       /\ Cardinality(Diagnostics(frame[t].trace)) = 1

\* C16 amended: setAmplitude with the service unreachable on both attempts
\* completes without raising and logs three error-level diagnostics: the
\* dispatcher's one after each failed attempt and, once, its own for the
\* status UNKNOWN_ERROR.
C16_OwnDiagnosticOnce ==
  \A t \in Callers :
    SetAmplitudeUnreachable(t)
    => LET tr == frame[t].trace
           own == {j \in Diagnostics(tr) : tr[j].op = "vibratorSetAmplitude"} IN
       /\ frame[t].result = <<>>
       /\ own = {Len(tr)}
       /\ tr[Len(tr)] = Ev("ALOGE", "vibratorSetAmplitude", <<>>, "UNKNOWN_ERROR")
       /\ Diagnostics(tr) \ own = {j + 1 : j \in FailedAttempts(tr)}
       /\ \A j \in Diagnostics(tr) \ own : tr[j] = Ev("ALOGE", "setAmplitude", <<>>, "halCall")

\* The call of C16 has returned.
C16_Witness ==
  \E t \in Callers :
    /\ SetAmplitudeUnreachable(t)
    /\ Cardinality(Diagnostics(frame[t].trace)) = 3

\* C17: the dispatcher returns the outcome of the last attempt it made,
\* whether that was the first attempt or the retry: its Return is ok exactly
\* when that attempt completed and then carries its value, and the callback
\* values are those of that attempt.
C17_ReturnsLastAttempt ==
  \A t \in Callers :
    LET f == frame[t] IN
    (f.pc = "L84" /\ Pos(f.trace, "attempt") # {})
    => LET a == LastAttempt(f.trace) IN
       /\ f.ret.ok <=> a.out = "done"
       /\ a.out = "done"
          => /\ f.ret.val = a.reply.val
             /\ a.reply.cb # <<>>
                => f.status = <<a.reply.cb[1]>> /\ f.lengthMs = <<a.reply.cb[2]>>
       /\ a.out = "nullptr" => f.ret = [ok |-> FALSE, val |-> "EX_NULL_POINTER"]
       /\ a.out = "dead" => f.ret = [ok |-> FALSE, val |-> "DEAD_OBJECT"]

\* The first attempt failed and the retry completed with UNKNOWN_ERROR, which
\* the dispatcher returned.
C17_Witness ==
  \E t \in Callers :
    LET f == frame[t] IN
    /\ f.pc = "L84" /\ f.op = "on"
    /\ Cardinality(Pos(f.trace, "attempt")) = 2
    /\ LastAttempt(f.trace).out = "done"
    /\ LastAttempt(f.trace).reply.val = "UNKNOWN_ERROR"
    /\ f.ret = [ok |-> TRUE, val |-> "UNKNOWN_ERROR"]

\* The step part of C18, for an operation whose first acquisition yielded a
\* handle.
C18_Step ==
  \A op \in Ops :
    (sInit[op] /\ sAvailable[op])
    => /\ sAvailable'[op]
       /\ \A t \in Callers :
            (frame'[t] # frame[t] /\ frame[t].op = op)
            => /\ (frame[t].pc = "L62") => frame'[t].pc = "L72"
               /\ (frame[t].pc = "L72" /\ frame[t].i < NUM_TRIES)
                  => /\ Len(NewEvents(t)) = 1 /\ NewEvents(t)[1].kind = "attempt"
                     /\ sHal[op] = "Live" => NewEvents(t)[1].out = "done"
               /\ EndsWithFailedAttempt(frame[t].trace)
                  => /\ Len(NewEvents(t)) = 2
                     /\ NewEvents(t)[2].kind = "tryGetService"
                     /\ Registered(Interface(op)) => sHal'[op] = "Live"

\* C18: if the first acquisition of an operation yielded a handle, the
\* availability flag never changes afterwards and every invocation goes into
\* the loop: each failed attempt, the final one included, is followed by a
\* reconnection, also after reconnections that returned no handle; a
\* reconnection made while the service is registered yields a live handle and
\* an attempt through a live handle completes, so once the service is
\* reachable again an invocation completes at the latest on its second
\* attempt.
C18_SelfHealing == [][C18_Step]_vars

\* A later invocation found the handle absent (lost by an earlier failed
\* reconnection), reconnected and completed on its second attempt.
C18_Witness ==
  \E t \in Callers :
    LET tr == frame[t].trace IN
    /\ frame[t].pc = "L84"
    /\ Len(tr) = 4
    /\ tr[1].kind = "attempt" /\ tr[1].out = "nullptr"
    /\ tr[3].kind = "tryGetService" /\ tr[3].out = "Live"
    /\ tr[4].kind = "attempt" /\ tr[4].out = "done"

\* The step part of C19.
C19_Step ==
  \A t \in Callers :
    (frame'[t] # frame[t] /\ frame[t].op \in Ops)
    => \A o \in Ops \ {frame[t].op} :
         /\ sInit'[o] = sInit[o]
         /\ sHal'[o] = sHal[o]
         /\ sAvailable'[o] = sAvailable[o]

\* C19: the cached handle and the availability flag are kept per operation: a
\* step of a call of one operation, its reconnections included, leaves the
\* handle and the flag of every other operation unchanged.
C19_PerOperationCache == [][C19_Step]_vars

\* A call of one operation has reconnected to the running service while the
\* handle of another operation is still the dead one.
C19_Witness ==
  \E t \in Callers : \E o \in Ops :
    LET tr == frame[t].trace IN
    /\ frame[t].pc = "L84" /\ frame[t].op \in Ops /\ o # frame[t].op
    /\ Interface(o) = Interface(frame[t].op)
    /\ \E j \in Pos(tr, "tryGetService") : tr[j].out = "Live"
    /\ sHal[frame[t].op] = "Live"
    /\ sInit[o] /\ sHal[o] = "Stale"

\* Thread t is inside halCall for op.
InHalCall(t, op) ==
  /\ frame[t].op = op
  /\ frame[t].pc \in {"L59", "L62", "L72", "L74", "L80", "L82", "L82w"}

\* A thread is replacing sHal of op (line 82) while another thread is inside
\* the call on the proxy it has read from it (line 74).
Overlap(op) ==
  \E t1, t2 \in Callers :
    /\ t1 # t2
    /\ frame[t1].op = op /\ frame[t1].pc = "L82w"
    /\ frame[t2].op = op /\ frame[t2].pc = "L74"

\* C11: with threads invoking the same operation concurrently, no thread
\* reads or calls the cached handle while another is replacing it, and once
\* all of them have left the dispatcher the cached handle is the one of the
\* most recent reacquisition.
C11_ReconnectNotOverwritten ==
  \A op \in Ops :
    /\ ~Overlap(op)
    /\ (\A t \in Callers : ~InHalCall(t, op)) => sSeq[op] = nAcq[op]

\* The getService events of op in the current calls.
FirstUses(op) ==
  {<<t, j>> \in Callers \X (1..4) :
     /\ j \in Pos(frame[t].trace, "getService")
     /\ frame[t].trace[j].op = op}

\* The step part of C12.
C12_Step ==
  \A op \in Ops :
    /\ sInit[op]
       => /\ sInit'[op]
          /\ sAvailable'[op] = sAvailable[op]
          /\ \A t \in Callers :
               (frame'[t] # frame[t] /\ frame[t].op = op)
               => /\ \A j \in 1..Len(NewEvents(t)) : NewEvents(t)[j].kind # "getService"
                  /\ frame[t].pc = "L59" => sHal'[op] = sHal[op]
                  /\ frame[t].pc = "L62"
                     => (frame'[t].pc = "L84" <=> ~sAvailable[op])
    /\ (~sInit[op] /\ sInit'[op])
       => /\ sAvailable'[op] = (sHal'[op] # "Null")
          /\ Cardinality({t \in Callers : frame'[t] # frame[t]}) = 1
          /\ \A t \in Callers :
               frame'[t] # frame[t]
               => NewEvents(t) = <<Ev("getService", op, <<>>, sHal'[op])>>
    /\ \A t \in Callers :
         (frame[t].op = op /\ frame[t].pc \in {"L62", "L72", "L74", "L80", "L82", "L82w"})
         => sInit[op]

\* C12: when several threads make their first call of the same operation
\* concurrently, the first-use acquisition is made exactly once, by one
\* thread; every thread goes on with the handle it cached and with the one
\* availability flag computed from it, which never changes afterwards.
C12_FirstUseOnce == [][C12_Step]_vars

\* Two threads are past the static initialisation of the same operation in
\* their first calls, and one of them has made the acquisition.
C12_Witness ==
  \E op \in Ops :
    /\ \A t \in Threads :
         /\ t \in Callers
         /\ frame[t].op = op
         /\ frame[t].pc \in {"L72", "L74"}
    /\ Cardinality(FirstUses(op)) = 1
    /\ sAvailable[op]

====
